---- MODULE Spec2Model ----
(***************************************************************************)
(* Model of the E-Learning Platform backend (app.py): a Flask service over *)
(* an SQLite store with four tables and four routes.  Every handler opens  *)
(* its own connection, so concurrent requests interleave at the level of   *)
(* single SQL statements; the store serialises writers with its file lock. *)
(***************************************************************************)
EXTENDS Integers, Sequences, FiniteSets, Bags, TLC

(* ------------------------------------------------------------------ *)
(* Bounds of the model                                                  *)
(* ------------------------------------------------------------------ *)

\* how many times the initializer may run on the same store file
MaxInits == 1

\* request handlers that may be in flight at the same time
Workers == {"w1", "w2"}

(* ------------------------------------------------------------------ *)
(* Values: JSON / Python / SQLite scalars                               *)
(* ------------------------------------------------------------------ *)

\* Python None, also SQL NULL
None == [k |-> "none", n |-> 0, s |-> ""]
IntV(i) == [k |-> "int", n |-> i, s |-> ""]
StrV(t) == [k |-> "str", n |-> 0, s |-> t]
\* marks a key that the JSON object or the query string does not carry
Missing == [k |-> "missing", n |-> 0, s |-> ""]

\* decimal texts the model uses, with the integer each denotes
DecimalText == ("0" :> 0) @@ ("4" :> 4) @@ ("101" :> 101) @@ ("999" :> 999)

\* Python truth value of a scalar: None, 0 and "" are falsy
Truthy(v) ==
    CASE v.k = "none" -> FALSE
      [] v.k = "int"  -> v.n # 0
      [] v.k = "str"  -> v.s # ""
      [] OTHER        -> FALSE

\* validation that only rejects absent fields
AllPresent(vs) == \A i \in 1..Len(vs) : vs[i] # None

\* Python all([...]) over the two request fields
All(vs) == \A i \in 1..Len(vs) : Truthy(vs[i])

\* dict.get(key): the value, or None when the key is absent
DictGet(d, key) == IF key \in DOMAIN d THEN d[key] ELSE None

\* a JSON object / query string holding the fields that are not Missing
Dict(u, c) ==
    [f \in {x \in {"user_id", "course_id"} :
              (IF x = "user_id" THEN u ELSE c) # Missing}
       |-> IF f = "user_id" THEN u ELSE c]

\* request.args.get(key, type=int): int(text), None on a missing key or
\* on the ValueError of a text that is not a decimal number
ArgsGetInt(args, key) ==
    IF key \notin DOMAIN args THEN None
    ELSE IF args[key].s \in DOMAIN DecimalText
         THEN IntV(DecimalText[args[key].s])
         ELSE None

\* SQLite INTEGER column affinity: a text that looks like an integer is
\* converted to that integer, every other value is kept as it is
IntegerAffinity(v) ==
    IF v.k = "str" /\ v.s \in DOMAIN DecimalText
    THEN IntV(DecimalText[v.s])
    ELSE v

(* ------------------------------------------------------------------ *)
(* The store                                                            *)
(* ------------------------------------------------------------------ *)

VARIABLES
    Users,        \* table Users: sequence of rows in insertion order
    Courses,      \* table Courses
    Lessons,      \* table Lessons
    Enrollments,  \* table Enrollments: bag of committed rows
    writer,       \* connection holding the store's write lock, or "none"
    pc,           \* per handler: the statement it executes next
    req,          \* per handler: route and the locals user_id, course_id
    loc,          \* per handler: locals fetched so far
    resp          \* per handler: the response it returned

vars == <<Users, Courses, Lessons, Enrollments, writer, pc, req, loc, resp>>
tables == <<Users, Courses, Lessons, Enrollments>>

\* PRAGMA foreign_keys: get_db_connection never turns it on, and SQLite
\* leaves foreign-key enforcement off by default
ForeignKeys == FALSE

SeedUsers == <<
    [id |-> 1, name |-> "Dr. Aris Patel", email |-> "aris@plat.edu", role |-> "I"],
    [id |-> 2, name |-> "Prof. Lin Wang", email |-> "lin@plat.edu", role |-> "I"],
    [id |-> 3, name |-> "Dr. Anya Sharma", email |-> "anya@plat.edu", role |-> "I"],
    [id |-> 4, name |-> "Mock Student User", email |-> "student@plat.edu", role |-> "S"] >>

SeedCourses == <<
    [id |-> 101, title |-> "Introduction to SQL and Relational Databases",
     description |-> "Learn the fundamental concepts of database management, normalization, and SQL querying.",
     instructor_id |-> 1],
    [id |-> 102, title |-> "Python Web Development with Flask",
     description |-> "A practical guide to building REST APIs using the Flask framework.",
     instructor_id |-> 2],
    [id |-> 103, title |-> "Data Structures & Algorithms in Python",
     description |-> "Master core DSA concepts including trees, graphs, and dynamic programming for coding interviews.",
     instructor_id |-> 1],
    [id |-> 104, title |-> "Advanced Cloud Computing (AWS Focus)",
     description |-> "Explore serverless architecture, microservices, and large-scale deployment using AWS.",
     instructor_id |-> 3] >>

\* the lesson rows carry no id: the store assigns the next rowid
SeedLessons == <<
    [course_id |-> 101, title |-> "What is a Database?",
     content |-> "A database is an organized collection of data..."],
    [course_id |-> 101, title |-> "SQL Basic Queries",
     content |-> "SELECT, FROM, and WHERE clauses are the foundation of SQL."],
    [course_id |-> 102, title |-> "Setting up the Flask Project",
     content |-> "Initialize your Python environment and install Flask."],
    [course_id |-> 102, title |-> "Creating API Endpoints",
     content |-> "Define routes to handle GET and POST requests."],
    [course_id |-> 103, title |-> "Big O Notation and Time Complexity",
     content |-> "Understanding how to measure algorithm efficiency."],
    [course_id |-> 103, title |-> "Introduction to Binary Search Trees",
     content |-> "Balanced vs. unbalanced trees and common operations."],
    [course_id |-> 104, title |-> "Serverless Functions (Lambda)",
     content |-> "Building and deploying FaaS functions."],
    [course_id |-> 104, title |-> "Containerization with Docker and ECS",
     content |-> "Packaging applications for scalable cloud deployment."] >>

\* the set of elements of a sequence
Range(seq) == {seq[i] : i \in 1..Len(seq)}

\* uniqueness constraints of Users: PRIMARY KEY id, UNIQUE email
UsersUnique == {"id", "email"}

\* uniqueness constraint of Courses and of Lessons: PRIMARY KEY id
IdUnique == {"id"}

\* INSERT OR IGNORE without the constraint check: every row is added
InsertAlways(table, row, unique) == Append(table, row)

\* INSERT OR IGNORE: the row is skipped when one of the table's unique
\* columns already holds its value, and added otherwise
InsertOrIgnore(table, row, unique) ==
    IF \E r \in Range(table) : \E col \in unique : r[col] = row[col]
    THEN table
    ELSE Append(table, row)

\* the rowid SQLite assigns to a row inserted without INTEGER PRIMARY KEY
\* value: one more than the largest rowid in the table
NextRowid(table) ==
    IF table = <<>> THEN 1
    ELSE LET ids == {table[i].id : i \in 1..Len(table)}
         IN  1 + CHOOSE m \in ids : \A i \in ids : i <= m

RECURSIVE InsertUsers(_, _)
InsertUsers(table, rows) ==
    IF rows = <<>> THEN table
    ELSE InsertUsers(InsertOrIgnore(table, Head(rows), UsersUnique), Tail(rows))

RECURSIVE InsertCourses(_, _)
InsertCourses(table, rows) ==
    IF rows = <<>> THEN table
    ELSE InsertCourses(InsertOrIgnore(table, Head(rows), IdUnique), Tail(rows))

RECURSIVE InsertLessons(_, _)
InsertLessons(table, rows) ==
    IF rows = <<>> THEN table
    ELSE InsertLessons(
             InsertOrIgnore(table,
                            [id |-> NextRowid(table),
                             course_id |-> Head(rows).course_id,
                             title |-> Head(rows).title,
                             content |-> Head(rows).content],
                            IdUnique),
             Tail(rows))

NoReq == [op |-> "none", user_id |-> None, course_id |-> None]
NoLoc == [course |-> <<>>, is_enrolled |-> FALSE, row |-> <<>>]
NoResp == [status |-> 0, body |-> [none |-> TRUE]]

\* the store after the initializer has run on an empty store file, which
\* happens at import, before any request is served
Init ==
    /\ Users = InsertUsers(<<>>, SeedUsers)
    /\ Courses = InsertCourses(<<>>, SeedCourses)
    /\ Lessons = InsertLessons(<<>>, SeedLessons)
    /\ Enrollments = EmptyBag
    /\ writer = "none"
    /\ pc = [w \in Workers |-> "idle"]
    /\ req = [w \in Workers |-> NoReq]
    /\ loc = [w \in Workers |-> NoLoc]
    /\ resp = [w \in Workers |-> NoResp]

\* init_db on the existing store (a restart, or the second import made by
\* the debug reloader): one write transaction, committed at the end
init_db ==
    /\ writer = "none"
    /\ Len(Lessons) < Len(SeedLessons) * (MaxInits + 1)
    /\ Users' = InsertUsers(Users, SeedUsers)
    /\ Courses' = InsertCourses(Courses, SeedCourses)
    /\ Lessons' = InsertLessons(Lessons, SeedLessons)
    /\ UNCHANGED <<Enrollments, writer, pc, req, loc, resp>>

(* ------------------------------------------------------------------ *)
(* Queries                                                              *)
(* ------------------------------------------------------------------ *)

\* a join condition on the course's own id instead of its instructor
JoinOnCourseId(c, u) == c.id = u.id

\* ON C.instructor_id = U.id
JoinOn(c, u) == c.instructor_id = u.id

\* the users joined to one course, as result rows
MatchUsers(c, us) ==
    LET m == SelectSeq(us, LAMBDA u : JoinOn(c, u))
    IN  [i \in 1..Len(m) |->
            [id |-> c.id, title |-> c.title, description |-> c.description,
             instructor_name |-> m[i].name]]

\* SELECT C.id, C.title, C.description, U.name AS instructor_name
\* FROM Courses C JOIN Users U ON C.instructor_id = U.id
RECURSIVE JoinCourseUsers(_, _)
JoinCourseUsers(cs, us) ==
    IF cs = <<>> THEN <<>>
    ELSE MatchUsers(Head(cs), us) \o JoinCourseUsers(Tail(cs), us)

\* the same join WHERE C.id = ?
SelectCourse(cs, us, course_id) ==
    JoinCourseUsers(SelectSeq(cs, LAMBDA c : IntV(c.id) = IntegerAffinity(course_id)), us)

\* fetchone(): the first row of a result, or nothing
FetchOne(rows) == IF rows = <<>> THEN <<>> ELSE <<Head(rows)>>

\* ORDER BY id
RECURSIVE OrderById(_)
OrderById(rows) ==
    IF rows = <<>> THEN <<>>
    ELSE LET i == CHOOSE j \in 1..Len(rows) :
                      \A l \in 1..Len(rows) :
                          rows[j].id < rows[l].id \/ (rows[j].id = rows[l].id /\ j <= l)
         IN  <<rows[i]>> \o
             OrderById([l \in 1..(Len(rows) - 1) |->
                           IF l < i THEN rows[l] ELSE rows[l + 1]])

\* SELECT id, title, content FROM Lessons WHERE course_id = ? ORDER BY id
SelectLessons(ls, course_id) ==
    LET m == OrderById(SelectSeq(ls, LAMBDA l : IntV(l.course_id) = IntegerAffinity(course_id)))
    IN  [i \in 1..Len(m) |->
            [id |-> m[i].id, title |-> m[i].title, content |-> m[i].content]]

\* SELECT 1 FROM Enrollments WHERE user_id = ? AND course_id = ?
\* (the column's affinity is applied to the bound parameter)
EnrollmentExists(es, user_id, course_id) ==
    \E r \in BagToSet(es) :
        /\ r.user_id = IntegerAffinity(user_id)
        /\ r.course_id = IntegerAffinity(course_id)

\* an Enrollments table declared without its primary key
NoPrimaryKey(es, row) == FALSE

\* PRIMARY KEY (user_id, course_id) of Enrollments
PrimaryKeyConflict(es, row) ==
    \E r \in BagToSet(es) : r.user_id = row.user_id /\ r.course_id = row.course_id

\* NOT NULL of user_id and course_id
NotNullViolation(row) == row.user_id = None \/ row.course_id = None

\* FOREIGN KEY (user_id) REFERENCES Users(id),
\* FOREIGN KEY (course_id) REFERENCES Courses(id)
ForeignKeyViolation(us, cs, row) ==
    \/ ~ \E u \in Range(us) : IntV(u.id) = row.user_id
    \/ ~ \E c \in Range(cs) : IntV(c.id) = row.course_id

\* an INSERT that is not checked against the primary key
IntegrityErrorSkipsKey(us, cs, es, row) ==
    \/ NotNullViolation(row)
    \/ (ForeignKeys /\ ForeignKeyViolation(us, cs, row))

\* the INSERT INTO Enrollments raises sqlite3.IntegrityError
IntegrityError(us, cs, es, row) ==
    \/ NotNullViolation(row)
    \/ PrimaryKeyConflict(es, row)
    \/ (ForeignKeys /\ ForeignKeyViolation(us, cs, row))

\* the row INSERT INTO Enrollments (user_id, course_id) VALUES (?, ?) stores
EnrollmentRow(user_id, course_id) ==
    [user_id |-> IntegerAffinity(user_id),
     course_id |-> IntegerAffinity(course_id),
     enroll_date |-> "CURRENT_DATE"]

(* ------------------------------------------------------------------ *)
(* Requests                                                             *)
(* ------------------------------------------------------------------ *)

\* values of the user_id field of an enroll body
UserIdInputs == {Missing, None, IntV(0), StrV(""), StrV("0"), IntV(4), StrV("4")}
\* values of the course_id field of an enroll body
CourseIdInputs == {Missing, IntV(101), IntV(999)}
\* JSON objects posted to /api/enroll
EnrollBodies == {Dict(u, c) : u \in UserIdInputs, c \in CourseIdInputs}

\* course ids in the path of /api/course/<int:course_id>
DetailCourseIds == {101, 999}
\* query strings of /api/course/<id>
DetailArgs == {Dict(u, Missing) : u \in {Missing, StrV("0"), StrV("4"), StrV("abc")}}

\* a handler that is not serving a request
Free(w) == pc[w] = "idle"

Reply(w, status, body) == resp' = [resp EXCEPT ![w] = [status |-> status, body |-> body]]

\* GET /
index_redirect(w) ==
    /\ Free(w)
    /\ pc' = [pc EXCEPT ![w] = "done"]
    /\ req' = [req EXCEPT ![w] = [op |-> "index", user_id |-> None, course_id |-> None]]
    /\ loc' = [loc EXCEPT ![w] = NoLoc]
    /\ Reply(w, 302, [location |-> "/api/courses"])
    /\ UNCHANGED <<tables, writer>>

\* GET /api/courses
get_courses(w) ==
    /\ Free(w)
    /\ pc' = [pc EXCEPT ![w] = "done"]
    /\ req' = [req EXCEPT ![w] = [op |-> "courses", user_id |-> None, course_id |-> None]]
    /\ loc' = [loc EXCEPT ![w] = NoLoc]
    /\ Reply(w, 200, [items |-> JoinCourseUsers(Courses, Users)])
    /\ UNCHANGED <<tables, writer>>

\* GET /api/course/<course_id>: parse user_id, fetch the course
get_course_detail(w, course_id, args) ==
    /\ Free(w)
    /\ LET user_id == ArgsGetInt(args, "user_id")
           course == FetchOne(SelectCourse(Courses, Users, IntV(course_id)))
       IN  /\ req' = [req EXCEPT ![w] = [op |-> "detail", user_id |-> user_id,
                                         course_id |-> IntV(course_id)]]
           /\ loc' = [loc EXCEPT ![w] = [NoLoc EXCEPT !.course = course]]
           /\ IF course = <<>>
              THEN /\ pc' = [pc EXCEPT ![w] = "done"]
                   /\ Reply(w, 404, [error |-> "Course not found"])
              ELSE /\ pc' = [pc EXCEPT ![w] = "d_enrollment"]
                   /\ resp' = [resp EXCEPT ![w] = NoResp]
    /\ UNCHANGED <<tables, writer>>

\* get_course_detail: the enrollment status
get_course_detail_enrollment(w) ==
    /\ pc[w] = "d_enrollment"
    /\ loc' = [loc EXCEPT ![w].is_enrolled =
                  /\ Truthy(req[w].user_id)
                  /\ EnrollmentExists(Enrollments, req[w].user_id, req[w].course_id)]
    /\ pc' = [pc EXCEPT ![w] = "d_lessons"]
    /\ UNCHANGED <<tables, writer, req, resp>>

\* get_course_detail: the lessons and the response
get_course_detail_lessons(w) ==
    /\ pc[w] = "d_lessons"
    /\ LET course == loc[w].course[1]
       IN  Reply(w, 200,
                 [id |-> course.id, title |-> course.title,
                  description |-> course.description,
                  instructor_name |-> course.instructor_name,
                  lessons |-> SelectLessons(Lessons, req[w].course_id),
                  is_enrolled |-> loc[w].is_enrolled])
    /\ pc' = [pc EXCEPT ![w] = "done"]
    /\ UNCHANGED <<tables, writer, req, loc>>

\* POST /api/enroll: read the body and validate it
enroll_user(w, data) ==
    /\ Free(w)
    /\ LET user_id == DictGet(data, "user_id")
           course_id == DictGet(data, "course_id")
       IN  /\ req' = [req EXCEPT ![w] = [op |-> "enroll", user_id |-> user_id,
                                         course_id |-> course_id]]
           /\ IF ~ All(<<user_id, course_id>>)
              THEN /\ pc' = [pc EXCEPT ![w] = "done"]
                   /\ Reply(w, 400, [error |-> "Missing user_id or course_id"])
              ELSE /\ pc' = [pc EXCEPT ![w] = "e_check"]
                   /\ resp' = [resp EXCEPT ![w] = NoResp]
    /\ loc' = [loc EXCEPT ![w] = NoLoc]
    /\ UNCHANGED <<tables, writer>>

\* an existence check that never finds a row
NeverEnrolled(es, user_id, course_id) == FALSE

\* the result of the handler's "Check if already enrolled" query
AlreadyEnrolled(es, user_id, course_id) == EnrollmentExists(es, user_id, course_id)

\* enroll_user: the existence check
enroll_user_check(w) ==
    /\ pc[w] = "e_check"
    /\ IF AlreadyEnrolled(Enrollments, req[w].user_id, req[w].course_id)
       THEN /\ pc' = [pc EXCEPT ![w] = "done"]
            /\ Reply(w, 200, [message |-> "Already enrolled"])
       ELSE /\ pc' = [pc EXCEPT ![w] = "e_insert"]
            /\ UNCHANGED resp
    /\ UNCHANGED <<tables, writer, req, loc>>

\* enroll_user: the INSERT, which opens a write transaction; it waits
\* while another connection holds the write lock
enroll_user_insert(w) ==
    /\ pc[w] = "e_insert"
    /\ writer = "none"
    /\ LET row == EnrollmentRow(req[w].user_id, req[w].course_id)
       IN  IF IntegrityError(Users, Courses, Enrollments, row)
           THEN /\ pc' = [pc EXCEPT ![w] = "done"]
                /\ Reply(w, 409, [error |-> "Enrollment failed due to database constraint"])
                /\ UNCHANGED <<writer, loc>>
           ELSE /\ pc' = [pc EXCEPT ![w] = "e_commit"]
                /\ loc' = [loc EXCEPT ![w].row = <<row>>]
                /\ writer' = w
                /\ UNCHANGED resp
    /\ UNCHANGED <<tables, req>>

\* enroll_user: the commit and the response
enroll_user_commit(w) ==
    /\ pc[w] = "e_commit"
    /\ writer = w
    /\ Enrollments' = Enrollments (+) SetToBag(Range(loc[w].row))
    /\ writer' = "none"
    /\ pc' = [pc EXCEPT ![w] = "done"]
    /\ Reply(w, 201, [message |-> "Enrollment successful!"])
    /\ UNCHANGED <<Users, Courses, Lessons, req, loc>>

\* the response has been sent and the handler is free for the next request
finish(w) ==
    /\ pc[w] = "done"
    /\ pc' = [pc EXCEPT ![w] = "idle"]
    /\ req' = [req EXCEPT ![w] = NoReq]
    /\ loc' = [loc EXCEPT ![w] = NoLoc]
    /\ resp' = [resp EXCEPT ![w] = NoResp]
    /\ UNCHANGED <<tables, writer>>

\* one statement of one handler
Step(w) ==
    \/ index_redirect(w)
    \/ get_courses(w)
    \/ \E course_id \in DetailCourseIds, args \in DetailArgs :
           get_course_detail(w, course_id, args)
    \/ get_course_detail_enrollment(w)
    \/ get_course_detail_lessons(w)
    \/ \E data \in EnrollBodies : enroll_user(w, data)
    \/ enroll_user_check(w)
    \/ enroll_user_insert(w)
    \/ enroll_user_commit(w)
    \/ finish(w)

\* requests served concurrently
Next ==
    \/ init_db
    \/ \E w \in Workers : Step(w)

Spec == Init /\ [][Next]_vars

\* no other handler is in the middle of a request
Alone(w) == \A v \in Workers \ {w} : pc[v] \in {"idle", "done"}

\* requests served one after the other: a handler runs only while no
\* other handler is in the middle of a request
SeqNext ==
    \/ init_db
    \/ \E w \in Workers : Alone(w) /\ index_redirect(w)
    \/ \E w \in Workers : Alone(w) /\ get_courses(w)
    \/ \E w \in Workers : Alone(w) /\
           \E course_id \in DetailCourseIds, args \in DetailArgs :
               get_course_detail(w, course_id, args)
    \/ \E w \in Workers : Alone(w) /\ get_course_detail_enrollment(w)
    \/ \E w \in Workers : Alone(w) /\ get_course_detail_lessons(w)
    \/ \E w \in Workers : Alone(w) /\ \E data \in EnrollBodies : enroll_user(w, data)
    \/ \E w \in Workers : Alone(w) /\ enroll_user_check(w)
    \/ \E w \in Workers : Alone(w) /\ enroll_user_insert(w)
    \/ \E w \in Workers : Alone(w) /\ enroll_user_commit(w)
    \/ \E w \in Workers : Alone(w) /\ finish(w)

SeqSpec == Init /\ [][SeqNext]_vars

TypeOK ==
    /\ writer \in Workers \cup {"none"}
    /\ \A w \in Workers : pc[w] \in {"idle", "done", "d_enrollment", "d_lessons",
                                     "e_check", "e_insert", "e_commit"}

(* ------------------------------------------------------------------ *)
(* Properties                                                           *)
(* ------------------------------------------------------------------ *)

\* the handler w takes the step
Acts(w) == <<pc[w], req[w], loc[w], resp[w]>> # <<pc'[w], req'[w], loc'[w], resp'[w]>>

\* w has returned from an enroll request with the given status
Returned(w, status) ==
    /\ pc[w] = "done"
    /\ req[w].op = "enroll"
    /\ resp[w].status = status

\* the stored key of the pair an enroll request names
KeyOf(w) == <<IntegerAffinity(req[w].user_id), IntegerAffinity(req[w].course_id)>>

\* number of Enrollments rows of a (user_id, course_id) pair
RowsOf(es, user_id, course_id) ==
    BagCardinality([r \in {x \in BagToSet(es) :
                              x.user_id = user_id /\ x.course_id = course_id}
                      |-> es[r]])

\* C1: in every reachable state, whatever the interleaving of enroll
\* requests, Enrollments holds at most one row per (user_id, course_id).
C1_UniqueEnrollment ==
    \A r \in BagToSet(Enrollments) : RowsOf(Enrollments, r.user_id, r.course_id) <= 1

\* the duplicate-insert race has happened: a request passed the existence
\* check and then hit the constraint on a row another request had inserted
C1_Witness ==
    \E w \in Workers :
        /\ Returned(w, 409)
        /\ RowsOf(Enrollments, KeyOf(w)[1], KeyOf(w)[2]) = 1

\* C2: served one after the other, an enroll request with truthy fields
\* for a pair that is not enrolled returns 201 and adds exactly one row,
\* and one for a pair that is enrolled returns 200 and changes nothing.
C2_FirstThenRepeat ==
    [][\A w \in Workers :
          (req[w].op = "enroll" /\ pc[w] \in {"e_check", "e_insert", "e_commit"}
              /\ pc'[w] = "done")
          => IF EnrollmentExists(Enrollments, req[w].user_id, req[w].course_id)
             THEN /\ resp'[w].status = 200
                  /\ Enrollments' = Enrollments
             ELSE /\ resp'[w].status = 201
                  /\ Enrollments' = Enrollments (+)
                        SetToBag({EnrollmentRow(req[w].user_id, req[w].course_id)})
                  /\ BagCardinality(Enrollments') = BagCardinality(Enrollments) + 1
                  /\ UNCHANGED <<Users, Courses, Lessons>>]_vars

\* a first request returned 201 and the repeat for the same pair 200
C2_Witness ==
    \E w, v \in Workers :
        /\ Returned(w, 201)
        /\ Returned(v, 200)
        /\ KeyOf(w) = KeyOf(v)
        /\ RowsOf(Enrollments, KeyOf(w)[1], KeyOf(w)[2]) = 1

\* two requests that both passed the existence check for the same pair
C3_Racing(w, v) ==
    /\ w # v
    /\ pc[w] \in {"e_insert", "e_commit"}
    /\ pc[v] \in {"e_insert", "e_commit"}
    /\ KeyOf(w) = KeyOf(v)

\* C3: of two enroll requests that both ran the existence check before
\* either inserted, only one inserts; the request that finds the row at
\* its INSERT returns 409 and adds nothing, and a request returns 201 only
\* for the single row it inserted itself.
C3_RaceResolved ==
    /\ [](\A w, v \in Workers :
            /\ C3_Racing(w, v) => ~ (pc[w] = "e_commit" /\ pc[v] = "e_commit")
            /\ (w # v /\ Returned(w, 201) /\ Returned(v, 201)) => KeyOf(w) # KeyOf(v))
    /\ [][\A w \in Workers :
            /\ (pc[w] = "e_insert" /\ pc'[w] # "e_insert")
               => /\ Enrollments' = Enrollments
                  /\ IF EnrollmentExists(Enrollments, req[w].user_id, req[w].course_id)
                     THEN pc'[w] = "done" /\ resp'[w].status = 409
                     ELSE pc'[w] = "e_commit"
            /\ (pc[w] = "e_commit" /\ pc'[w] = "done")
               => /\ resp'[w].status = 201
                  /\ RowsOf(Enrollments, KeyOf(w)[1], KeyOf(w)[2]) = 0
                  /\ RowsOf(Enrollments', KeyOf(w)[1], KeyOf(w)[2]) = 1
                  /\ Enrollments' = Enrollments (+) SetToBag(Range(loc[w].row))]_vars

\* the race was run to its end: one request returned 201, the other 409,
\* the two naming the same user as the number 4 and as the text "4"
C3_Witness ==
    \E w, v \in Workers :
        /\ w # v
        /\ Returned(w, 201)
        /\ Returned(v, 409)
        /\ KeyOf(w) = KeyOf(v)
        /\ req[w].user_id # req[v].user_id

\* C4: an enroll request whose user_id or course_id is absent or falsy
\* returns 400, changes no table, and runs neither the existence check
\* nor the insert.
C4_BadRequest ==
    /\ [](\A w \in Workers :
            (req[w].op = "enroll"
                /\ ~ (Truthy(req[w].user_id) /\ Truthy(req[w].course_id)))
            => pc[w] = "done" /\ resp[w].status = 400)
    /\ [][\A w \in Workers :
            (Acts(w) /\ req'[w].op = "enroll"
                /\ ~ (Truthy(req'[w].user_id) /\ Truthy(req'[w].course_id)))
            => UNCHANGED <<tables, writer>>]_vars

\* a request with user_id 0 and one with no course_id were both rejected
C4_Witness ==
    \E w, v \in Workers :
        /\ Returned(w, 400) /\ req[w].user_id = IntV(0) /\ Truthy(req[w].course_id)
        /\ Returned(v, 400) /\ req[v].course_id = None /\ Truthy(req[v].user_id)

\* C5: once an enroll request for (u, c), c an existing course, has
\* returned 201 or 200, a later course-detail request for c with
\* user_id = u computes is_enrolled = true.
C5_EnrolledIsVisible ==
    [][\A w, v \in Workers :
          (/\ pc[w] = "d_enrollment" /\ pc'[w] = "d_lessons"
           /\ (Returned(v, 201) \/ Returned(v, 200))
           /\ KeyOf(v) = <<req[w].user_id, req[w].course_id>>)
          => loc'[w].is_enrolled]_vars

\* C6: a repeated run of init_db leaves every table with the rows it had.
C6_InitDbIdempotent == [][init_db => UNCHANGED tables]_vars

\* C7: list-courses returns every seeded course exactly once, each with
\* the non-empty name of its instructor, and no other course.
C7_ListCourses ==
    \A w \in Workers :
        (pc[w] = "done" /\ req[w].op = "courses")
        => LET items == resp[w].body.items
           IN  /\ resp[w].status = 200
               /\ Len(items) = Len(SeedCourses)
               /\ \A i \in 1..Len(SeedCourses) :
                     \E j \in 1..Len(items) :
                         /\ items[j].id = SeedCourses[i].id
                         /\ items[j].title = SeedCourses[i].title
                         /\ items[j].description = SeedCourses[i].description
                         /\ items[j].instructor_name # ""
                         /\ \E u \in Range(SeedUsers) :
                               /\ u.id = SeedCourses[i].instructor_id
                               /\ u.name = items[j].instructor_name

\* the courses were listed after the initializer had run again and after
\* an enrollment
C7_Witness ==
    \E w \in Workers :
        /\ pc[w] = "done" /\ req[w].op = "courses"
        /\ Len(Lessons) > Len(SeedLessons)
        /\ Enrollments # EmptyBag

\* s is an initial segment of t
IsPrefix(s, t) == Len(s) <= Len(t) /\ \A i \in 1..Len(s) : s[i] = t[i]

\* C8: course-detail returns 404 exactly when no Course row has the
\* requested id, whatever the user_id and the Enrollment rows; for an
\* existing course it returns 200 with the course fields, the lessons and
\* is_enrolled.
C8_NotFound ==
    \A w \in Workers :
        req[w].op = "detail"
        => LET exists == \E c \in Range(Courses) : IntV(c.id) = req[w].course_id
           IN  /\ pc[w] = "done" => resp[w].status = (IF exists THEN 200 ELSE 404)
               /\ pc[w] # "done" => exists
               /\ (pc[w] = "done" /\ resp[w].status = 200)
                  => /\ \E c \in Range(Courses) :
                           /\ c.id = resp[w].body.id
                           /\ IntV(c.id) = req[w].course_id
                           /\ c.title = resp[w].body.title
                           /\ c.description = resp[w].body.description
                           /\ \E u \in Range(Users) :
                                 /\ u.id = c.instructor_id
                                 /\ u.name = resp[w].body.instructor_name
                     /\ resp[w].body.is_enrolled \in BOOLEAN
                     /\ resp[w].body.lessons # <<>>
                     /\ IsPrefix(resp[w].body.lessons,
                                 SelectLessons(Lessons, req[w].course_id))

\* course 999 was not found although Enrollment rows name it, and course
\* 101 was returned
C8_Witness ==
    \E w, v \in Workers :
        /\ pc[w] = "done" /\ req[w].op = "detail" /\ resp[w].status = 404
        /\ req[w].course_id = IntV(999) /\ req[w].user_id = IntV(4)
        /\ EnrollmentExists(Enrollments, IntV(4), IntV(999))
        /\ pc[v] = "done" /\ req[v].op = "detail" /\ resp[v].status = 200

\* C9: for an existing course the is_enrolled flag is true exactly when a
\* user identifier was supplied and an Enrollment row for (u, c) exists
\* at that moment, and the request changes no table.
C9_FlagIffEnrolled ==
    [][\A w \in Workers :
          (pc[w] = "d_enrollment" /\ pc'[w] = "d_lessons")
          => /\ loc'[w].is_enrolled =
                   (/\ req[w].user_id # None
                    /\ EnrollmentExists(Enrollments, req[w].user_id, req[w].course_id))
             /\ UNCHANGED tables]_vars

\* C10: every Enrollment row names an existing User and an existing Course.
C10_ReferentialIntegrity ==
    \A r \in BagToSet(Enrollments) : ~ ForeignKeyViolation(Users, Courses, r)

====
